---- MODULE Spec2Model ----
(***************************************************************************)
(* geotext: the gazetteer index builder (read_table, build_index), the     *)
(* normalizer, the strict and the aggressive extractor (GeoText.parse,     *)
(* GeoText.parse_aggressive) and the mention tabulator (GeoText.__init__). *)
(*                                                                         *)
(* A Python string is a sequence of one-character strings; a dict is a    *)
(* function whose DOMAIN is the key set; a list is a sequence; a raised    *)
(* exception is a record [exc |-> name].                                   *)
(***************************************************************************)
EXTENDS Integers, Sequences, FiniteSets, TLC

(***************************************************************************)
(* Characters                                                              *)
(***************************************************************************)
UpperSeq ==
  <<"A","B","C","D","E","F","G","H","I","J","K","L","M",
    "N","O","P","Q","R","S","T","U","V","W","X","Y","Z">>

LowerSeq ==
  <<"a","b","c","d","e","f","g","h","i","j","k","l","m",
    "n","o","p","q","r","s","t","u","v","w","x","y","z">>

Range(f) == { f[i] : i \in DOMAIN f }

\* the element of a one-element set
The(S) == CHOOSE x \in S : TRUE

\* F applied to the value of v, v being computed once
Bind(v, F(_)) == The({ F(x) : x \in {v} })

\* [A-Z] of city_regex and the cased characters str.lower() changes
\* (the accented ranges of the regex are outside the modelled alphabet)
UpperChars == Range(UpperSeq)

\* [a-z] of city_regex; the characters for which c.islower() is true
LowerChars == Range(LowerSeq)

\* [a-u] of the linking-article clause d[a-u]. of city_regex
LowerAtoU == { LowerSeq[i] : i \in 1..21 }

\* string.punctuation (the quote characters and the backslash are outside
\* the modelled alphabet)
Punctuation ==
  {"!","#","$","%","&","(",")","*","+",",","-",".","/",":",";",
   "<","=",">","?","@","[","]","^","_","{","|","}","~"}

\* the characters str.split() and str.strip() treat as white space
Whitespace == {" ", "\t", "\n"}

\* the characters the re.sub call of normalize replaces by a space
SpacedChars == {"|", "/", ",", "-"}

(***************************************************************************)
(* String functions                                                        *)
(***************************************************************************)
LowerChar(c) ==
  IF c \in UpperChars
    THEN LowerSeq[CHOOSE i \in DOMAIN UpperSeq : UpperSeq[i] = c]
    ELSE c

\* str.lower()
Lower(s) == [i \in DOMAIN s |-> LowerChar(s[i])]

\* s.replace(c, empty string)
Remove(s, c) == SelectSeq(s, LAMBDA x : x # c)

\* the re.sub call of normalize
SubSpaces(s) == [i \in DOMAIN s |-> IF s[i] \in SpacedChars THEN " " ELSE s[i]]

\* s.strip(chars)
RECURSIVE LStrip(_, _)
LStrip(s, chars) ==
  IF s # <<>> /\ Head(s) \in chars THEN LStrip(Tail(s), chars) ELSE s

RECURSIVE RStrip(_, _)
RStrip(s, chars) ==
  IF s # <<>> /\ s[Len(s)] \in chars
    THEN RStrip(SubSeq(s, 1, Len(s) - 1), chars)
    ELSE s

Strip(s, chars) == RStrip(LStrip(s, chars), chars)

\* s.split(): the maximal runs of non-white-space characters
RECURSIVE SplitWs(_, _)
SplitWs(s, cur) ==
  IF s = <<>> THEN (IF cur = <<>> THEN <<>> ELSE <<cur>>)
  ELSE IF Head(s) \in Whitespace
    THEN (IF cur = <<>> THEN <<>> ELSE <<cur>>) \o SplitWs(Tail(s), <<>>)
  ELSE SplitWs(Tail(s), Append(cur, Head(s)))

Split(s) == SplitWs(s, <<>>)

\* the join of tokens by single spaces
RECURSIVE Join(_)
Join(tokens) ==
  IF tokens = <<>> THEN <<>>
  ELSE IF Len(tokens) = 1 THEN tokens[1]
  ELSE tokens[1] \o <<" ">> \o Join(Tail(tokens))

SelectNonEmpty(tokens) == SelectSeq(tokens, LAMBDA t : t # <<>>)

\* tokens = [t.strip(string.punctuation) for t in s.split()]
StripTokens(split) == [i \in DOMAIN split |-> Strip(split[i], Punctuation)]

\* normalize(s)
normalize(s) ==
  Bind(Split(SubSpaces(Remove(s, "."))),
       LAMBDA split : Join(SelectNonEmpty(StripTokens(split))))

(***************************************************************************)
(* Python values: results and exceptions, dicts                            *)
(***************************************************************************)
Ok(v) == [exc |-> "", val |-> v]

Raise(e) == [exc |-> e, val |-> <<>>]

EmptyDict == <<>>

\* a dict as an explicit table of its items
Dict(f) == f @@ EmptyDict

Put(d, k, v) == (k :> v) @@ d

\* d.pop(k, None) for every k of keys
PopAll(d, keys) == Dict([x \in (DOMAIN d) \ keys |-> d[x]])

\* row[i] with the 0-based index i of the source
Col(row, i) == row[i + 1]

HasCol(row, i) == i + 1 <= Len(row)

Digits == <<"0","1","2","3","4","5","6","7","8","9">>

DigitValue(c) == (CHOOSE i \in DOMAIN Digits : Digits[i] = c) - 1

RECURSIVE DecimalValue(_, _)
DecimalValue(s, acc) ==
  IF s = <<>> THEN acc
  ELSE DecimalValue(Tail(s), 10 * acc + DigitValue(Head(s)))

\* int(s) for the unsigned decimal strings of the population columns
ParseInt(s) ==
  LET t == Strip(s, Whitespace)
  IN  IF t # <<>> /\ \A i \in DOMAIN t : t[i] \in Range(Digits)
        THEN Ok(DecimalValue(t, 0))
        ELSE Raise("ValueError")

(***************************************************************************)
(* Constants of the module                                                 *)
(***************************************************************************)
COUNTRIES == "countries"
ADMIN_DIVISIONS == "admin_divisions"
CITIES == "cities"
NATIONALITIES == "nationalities"
MATCH_TYPES == {COUNTRIES, ADMIN_DIVISIONS, CITIES, NATIONALITIES}

BLACKLIST ==
  { <<"a","s","i","a">>,
    <<"b","a","r">>,
    <<"b","a","y">>,
    <<"c","a","n">>,
    <<"c","e","n","t","r","a","l">>,
    <<"e","a","s","t","e","r","n">>,
    <<"n","o","r","t","h">>,
    <<"n","o","r","t","h","e","r","n">>,
    <<"o","f">>,
    <<"p","o","l","e">>,
    <<"s","o","u","t","h","e","r","n">>,
    <<"u","n","i","v","e","r","s","i","t","y">>,
    <<"w","e","s","t","e","r","n">> }

(***************************************************************************)
(* read_table and the row parsers build_index passes to it.  A file is a   *)
(* sequence of lines and a line is the sequence of its columns (the line   *)
(* split at the separator).  The table name selects the parse_keys and     *)
(* parse_value callables, the separator, skip and collect_set.             *)
(***************************************************************************)
ALIASES == "alternateNamesFiltered"
CUSTOM_ALIASES == "alternateNamesCustom"

TableSep(table) == IF table = NATIONALITIES THEN ":" ELSE "\t"

TableSkip(table) == IF table = COUNTRIES THEN 1 ELSE 0

CollectSet(table) == table \in {ALIASES, CUSTOM_ALIASES}

\* line.strip() is empty
BlankLine(columns, sep) ==
  /\ sep \in Whitespace \/ Len(columns) = 1
  /\ \A i \in DOMAIN columns : Strip(columns[i], Whitespace) = <<>>

\* line.startswith(comment)
CommentLine(columns) == columns[1] # <<>> /\ columns[1][1] = "#"

\* with_aliases(name_set, alias_key)
with_aliases(name_set, alias_key, aliases) ==
  IF alias_key \in DOMAIN aliases
    THEN name_set \cup aliases[alias_key]
    ELSE name_set

PlaceData(country, population) == [country |-> country, population |-> population]

\* get_place_value(row, country_index, pop_index); pop_index = -1 is None
get_place_value(row, country_index, pop_index) ==
  IF pop_index >= 0 /\ ~HasCol(row, pop_index) THEN Raise("IndexError")
  ELSE LET population == IF pop_index < 0 THEN Ok(0)
                         ELSE ParseInt(Col(row, pop_index))
       IN  IF population.exc # "" THEN population
           ELSE IF ~HasCol(row, country_index) THEN Raise("IndexError")
           ELSE Ok(PlaceData(Col(row, country_index), population.val))

Words2(a, b) == a \o <<" ">> \o b

StartsWithADM1(s) == Len(s) >= 4 /\ SubSeq(s, 1, 4) = <<"A","D","M","1">>

\* the names the loop of get_place_keys adds for one name
PlaceVariants(name, feature_type, country_code, admin1_code) ==
  {Words2(name, country_code)}
    \cup (IF country_code = <<"G","B">> THEN {Words2(name, <<"U","K">>)} ELSE {})
    \cup (IF admin1_code # <<>> /\ ~StartsWithADM1(feature_type)
            THEN {Words2(name, admin1_code)} ELSE {})

\* get_place_keys(row)
get_place_keys(row, aliases) ==
  IF Len(row) < 3 \/ Len(row) < 11 THEN Raise("ValueError")
  ELSE LET geo_id == Col(row, 0)
           official_name == Col(row, 1)
           name_alias == Col(row, 2)
           feature_type == Col(row, 7)
           country_code == Col(row, 8)
           admin1_code == Col(row, 10)
           names == with_aliases({official_name, name_alias}, geo_id, aliases)
       IN  Ok(names \cup UNION { PlaceVariants(name, feature_type, country_code,
                                               admin1_code) : name \in names })

\* the parse_value callable of each read_table call of build_index
ParseValue(table, row) ==
  CASE table = ALIASES -> IF HasCol(row, 3) THEN Ok(Col(row, 3)) ELSE Raise("IndexError")
    [] table = CUSTOM_ALIASES ->
         IF HasCol(row, 1) THEN Ok(Col(row, 1)) ELSE Raise("IndexError")
    [] table = COUNTRIES -> get_place_value(row, 0, 7)
    [] table = NATIONALITIES -> get_place_value(row, 1, -1)
    [] OTHER -> get_place_value(row, 8, 14)

\* the parse_keys callable of each read_table call of build_index
ParseKeys(table, row, aliases) ==
  CASE table = ALIASES -> IF HasCol(row, 1) THEN Ok({Col(row, 1)}) ELSE Raise("IndexError")
    [] table = CUSTOM_ALIASES ->
         IF HasCol(row, 0) THEN Ok({Col(row, 0)}) ELSE Raise("IndexError")
    [] table = COUNTRIES ->
         IF HasCol(row, 4) /\ HasCol(row, 16)
           THEN Ok(with_aliases({Col(row, 4)}, Col(row, 16), aliases))
           ELSE Raise("IndexError")
    [] table = NATIONALITIES ->
         IF HasCol(row, 0) THEN Ok({Col(row, 0)}) ELSE Raise("IndexError")
    [] OTHER -> get_place_keys(row, aliases)

\* StoreKeys that leaves a key it already holds at its first value
StoreKeysKeepFirst(d, keys, value, collect_set) ==
  Bind({ normalize(Lower(key)) : key \in keys },
       LAMBDA nkeys :
         Dict([x \in (DOMAIN d) \cup nkeys |->
                 IF collect_set
                   THEN (IF x \in DOMAIN d THEN d[x] ELSE {})
                          \cup (IF x \in nkeys THEN {value} ELSE {})
                   ELSE (IF x \in DOMAIN d THEN d[x] ELSE value)]))

\* the loop "for key in keys" of read_table
StoreKeys(d, keys, value, collect_set) ==
  Bind({ normalize(Lower(key)) : key \in keys },
       LAMBDA nkeys :
         Dict([x \in (DOMAIN d) \cup nkeys |->
                 IF x \in nkeys
                   THEN (IF collect_set
                           THEN (IF x \in DOMAIN d THEN d[x] ELSE {}) \cup {value}
                           ELSE value)
                   ELSE d[x]]))

\* ReadLines with the rows the parsers raise on skipped
RECURSIVE ReadLinesSkippingBadRows(_, _, _, _)
ReadLinesSkippingBadRows(lines, table, aliases, d) ==
  IF lines = <<>> THEN Ok(d)
  ELSE LET columns == Head(lines)
           value == ParseValue(table, columns)
           keys == ParseKeys(table, columns, aliases)
       IN  IF value.exc # "" \/ keys.exc # ""
             THEN ReadLinesSkippingBadRows(Tail(lines), table, aliases, d)
           ELSE Bind(StoreKeys(d, keys.val, value.val, CollectSet(table)),
                     LAMBDA stored :
                       ReadLinesSkippingBadRows(Tail(lines), table, aliases, stored))

\* the loop "for line in lines" of read_table
RECURSIVE ReadLines(_, _, _, _)
ReadLines(lines, table, aliases, d) ==
  IF lines = <<>> THEN Ok(d)
  ELSE LET columns == Head(lines)
           value == ParseValue(table, columns)
           keys == ParseKeys(table, columns, aliases)
       IN  IF value.exc # "" THEN value
           ELSE IF keys.exc # "" THEN keys
           ELSE Bind(StoreKeys(d, keys.val, value.val, CollectSet(table)),
                     LAMBDA stored : ReadLines(Tail(lines), table, aliases, stored))

\* read_table(filename, parse_keys, parse_value, sep, skip, collect_set)
read_table(file, table, aliases) ==
  IF Len(file) < TableSkip(table) THEN Raise("StopIteration")
  ELSE LET rest == SubSeq(file, TableSkip(table) + 1, Len(file))
           lines == SelectSeq(rest, LAMBDA columns :
                      ~BlankLine(columns, TableSep(table)) /\ ~CommentLine(columns))
       IN  Bind(lines, LAMBDA ls : ReadLines(ls, table, aliases, EmptyDict))

\* the merge of the custom aliases into the alias map
MergeAliases(aliases, custom_aliases) ==
  Dict([id \in (DOMAIN aliases) \cup (DOMAIN custom_aliases) |->
          (IF id \in DOMAIN aliases THEN aliases[id] ELSE {})
            \cup (IF id \in DOMAIN custom_aliases THEN custom_aliases[id] ELSE {})])

\* the index of each match type, in the order the meta loop visits them
IndexOf(index, match_type) ==
  CASE match_type = CITIES -> index.cities
    [] match_type = ADMIN_DIVISIONS -> index.admin_divisions
    [] match_type = NATIONALITIES -> index.nationalities
    [] match_type = COUNTRIES -> index.countries

\* MetaAdd without the BLACKLIST test
MetaAddAll(meta, match_type, index) ==
  Dict([name \in (DOMAIN meta) \cup (DOMAIN index) |->
          (IF name \in DOMAIN meta THEN meta[name] ELSE {})
            \cup (IF name \in DOMAIN index THEN {match_type} ELSE {})])

\* one pass of the loop that fills meta: "for name in index"
MetaAdd(meta, match_type, index) ==
  LET added == { name \in DOMAIN index : name \notin BLACKLIST }
  IN  Dict([name \in (DOMAIN meta) \cup added |->
              (IF name \in DOMAIN meta THEN meta[name] ELSE {})
                \cup (IF name \in added THEN {match_type} ELSE {})])

\* the loop that fills meta, over the four (match_type, index) pairs
BuildMeta(cities, admin_divisions, nationalities, countries) ==
  Bind(MetaAdd(EmptyDict, CITIES, cities), LAMBDA m1 :
    Bind(MetaAdd(m1, ADMIN_DIVISIONS, admin_divisions), LAMBDA m2 :
      Bind(MetaAdd(m2, NATIONALITIES, nationalities), LAMBDA m3 :
        MetaAdd(m3, COUNTRIES, countries))))

Index(nationalities, cities, countries, admin_divisions, meta) ==
  [nationalities |-> nationalities, cities |-> cities, countries |-> countries,
   admin_divisions |-> admin_divisions, meta |-> meta]

(***************************************************************************)
(* The extractors                                                          *)
(***************************************************************************)
\* {match_type: [] for match_type in MATCH_TYPES}
NoMatches == [t \in MATCH_TYPES |-> <<>>]

\* for match_type in match_types: matches[match_type].append(candidate)
AppendMatch(matches, match_types, candidate) ==
  [t \in MATCH_TYPES |->
     IF t \in match_types THEN Append(matches[t], candidate) ELSE matches[t]]

\* cls.index.meta.get(key): the set of match types, or the empty set for None
MetaGet(meta, key) == IF key \in DOMAIN meta THEN meta[key] ELSE {}

\* meta after meta[key]: a defaultdict stores its default under a missing key
MetaAfterGetItem(meta, key) == IF key \in DOMAIN meta THEN meta ELSE Put(meta, key, {})

\* meta after cls.index.meta.get(key): dict.get stores nothing, on a
\* defaultdict as on a dict
MetaAfterGet(meta, key) == meta

\* meta after the calls of meta.get with keys, in order
RECURSIVE MetaAfterGets(_, _)
MetaAfterGets(meta, keys) ==
  IF keys = <<>> THEN meta
  ELSE Bind(MetaAfterGet(meta, Head(keys)),
            LAMBDA after : MetaAfterGets(after, Tail(keys)))

\* a dict() after d[key]: a hit reads and a miss raises KeyError
AfterGetItem(d, key) == d

\* a dict() after d[key] for the keys, in order
RECURSIVE AfterGetItems(_, _)
AfterGetItems(d, keys) ==
  IF keys = <<>> THEN d
  ELSE Bind(AfterGetItem(d, Head(keys)), LAMBDA after : AfterGetItems(after, Tail(keys)))

\* x.lower() for every x of bucket
LowerAll(bucket) == [i \in DOMAIN bucket |-> Lower(bucket[i])]

Min(a, b) == IF a < b THEN a ELSE b

Max(a, b) == IF a > b THEN a ELSE b

\* Assumes location names will be 4 words long at most
MaxNameWords == 4

\* len(candidate) < 3 of the short-token filter
ShortLen == 3

\* len(candidate) < 3 and any(c.islower() for c in candidate)
ShortLower(candidate) ==
  Len(candidate) < ShortLen /\ \E k \in DOMAIN candidate : candidate[k] \in LowerChars

\* the candidate of the window of length tokens that starts at token i (1-based)
Candidate(tokens, i, length) == Join(SubSeq(tokens, i, i + length - 1))

\* the windows at token i, of at most length tokens and longer than prev,
\* that the inner loop would break on
WindowHits(tokens, i, length, prev, meta) ==
  { L \in (prev + 1)..length :
      /\ ~ShortLower(Candidate(tokens, i, L))
      /\ MetaGet(meta, Lower(Candidate(tokens, i, L))) # {} }

\* TryWindows with the range stopping at 0 instead of prev_match_len
TryWindowsIgnoringPrev(tokens, i, length, prev_match_len, meta) ==
  IF WindowHits(tokens, i, length, 0, meta) = {} THEN 0
  ELSE CHOOSE L \in WindowHits(tokens, i, length, 0, meta) :
         \A M \in WindowHits(tokens, i, length, 0, meta) : M <= L

\* TryWindows with the range running upwards: the shortest window wins
TryWindowsShortestFirst(tokens, i, length, prev_match_len, meta) ==
  IF WindowHits(tokens, i, length, prev_match_len, meta) = {} THEN 0
  ELSE CHOOSE L \in WindowHits(tokens, i, length, prev_match_len, meta) :
         \A M \in WindowHits(tokens, i, length, prev_match_len, meta) : L <= M

\* the inner loop of parse_aggressive, from window length downwards: the
\* length of the accepted window, or 0 when the loop ends without a break
RECURSIVE TryWindows(_, _, _, _, _)
TryWindows(tokens, i, length, prev_match_len, meta) ==
  IF length <= prev_match_len THEN 0
  ELSE IF ShortLower(Candidate(tokens, i, length))
    THEN TryWindows(tokens, i, length - 1, prev_match_len, meta)
  ELSE IF MetaGet(meta, Lower(Candidate(tokens, i, length))) = {}
    THEN TryWindows(tokens, i, length - 1, prev_match_len, meta)
  ELSE length

\* the outer loop of parse_aggressive from token i on; accepted records the
\* (start, length, prev_match_len) of every window the loop breaks on
RECURSIVE AggressiveScan(_, _, _, _, _, _)
AggressiveScan(tokens, i, prev_match_len, matches, accepted, meta) ==
  IF i > Len(tokens) THEN [matches |-> matches, accepted |-> accepted]
  ELSE LET prev == Max(prev_match_len - 1, 0)
       IN  Bind(TryWindows(tokens, i, Min(MaxNameWords, Len(tokens) - i + 1),
                           prev, meta),
                LAMBDA length :
                  IF length = 0
                    THEN AggressiveScan(tokens, i + 1, prev, matches, accepted, meta)
                    ELSE Bind(<<AppendMatch(matches,
                                   MetaGet(meta, Lower(Candidate(tokens, i, length))),
                                   Candidate(tokens, i, length)),
                                Append(accepted, [start |-> i, length |-> length,
                                                  prev |-> prev])>>,
                              LAMBDA new :
                                AggressiveScan(tokens, i + 1, length, new[1], new[2],
                                               meta)))

\* the keys the inner loop calls meta.get with, from window length down to
\* window stop: a candidate the short-token filter skips is not looked up
RECURSIVE WindowLookups(_, _, _, _)
WindowLookups(tokens, i, length, stop) ==
  IF length < stop THEN <<>>
  ELSE (IF ShortLower(Candidate(tokens, i, length)) THEN <<>>
        ELSE <<Lower(Candidate(tokens, i, length))>>)
         \o WindowLookups(tokens, i, length - 1, stop)

\* the keys parse_aggressive calls meta.get with from token i on, in order:
\* at each i the loop runs down to the window it breaks on, or to
\* prev_match_len + 1
RECURSIVE AggressiveLookups(_, _, _, _)
AggressiveLookups(tokens, i, prev_match_len, meta) ==
  IF i > Len(tokens) THEN <<>>
  ELSE LET prev == Max(prev_match_len - 1, 0)
           top == Min(MaxNameWords, Len(tokens) - i + 1)
       IN  Bind(TryWindows(tokens, i, top, prev, meta),
                LAMBDA length :
                  WindowLookups(tokens, i, top, IF length = 0 THEN prev + 1 ELSE length)
                    \o AggressiveLookups(tokens, i + 1,
                                         IF length = 0 THEN prev ELSE length, meta))

\* GeoText.parse_aggressive(text)
parse_aggressive(text, index) ==
  Bind(Split(normalize(text)),
       LAMBDA tokens : AggressiveScan(tokens, 1, 0, NoMatches, <<>>, index.meta))

\* the first index >= pos of text whose character is not in class
RECURSIVE RunEnd(_, _, _)
RunEnd(text, pos, class) ==
  IF pos <= Len(text) /\ text[pos] \in class THEN RunEnd(text, pos + 1, class) ELSE pos

\* one capitalized group [A-Z]+[a-z]+ at pos: the index after it, or pos
GroupEnd(text, pos) ==
  LET u == RunEnd(text, pos, UpperChars)
      l == RunEnd(text, u, LowerChars)
  IN  IF u > pos /\ l > u THEN l ELSE pos

\* (?:[A-Z]+[a-z]+)* at pos
RECURSIVE GroupsEnd(_, _)
GroupsEnd(text, pos) ==
  Bind(GroupEnd(text, pos),
       LAMBDA end : IF end = pos THEN pos ELSE GroupsEnd(text, end))

\* [ \-]? at pos
SepEnd(text, pos) ==
  IF pos <= Len(text) /\ text[pos] \in {" ", "-"} THEN pos + 1 ELSE pos

\* (?:d[a-u].)? at pos
ArticleEnd(text, pos) ==
  IF /\ pos + 2 <= Len(text)
     /\ text[pos] = "d"
     /\ text[pos + 1] \in LowerAtoU
     /\ text[pos + 2] # "\n"
    THEN pos + 3 ELSE pos

\* city_regex matched at pos: the index after the match, or pos when it fails
RegexEnd(text, pos) ==
  Bind(GroupEnd(text, pos),
       LAMBDA first :
         IF first = pos THEN pos
         ELSE Bind(SepEnd(text, first),
                   LAMBDA sep : Bind(ArticleEnd(text, sep),
                                     LAMBDA article : GroupsEnd(text, article))))

\* re.findall(city_regex, text) from pos on
RECURSIVE FindAll(_, _)
FindAll(text, pos) ==
  IF pos > Len(text) THEN <<>>
  ELSE Bind(RegexEnd(text, pos),
            LAMBDA end :
              IF end = pos THEN FindAll(text, pos + 1)
              ELSE <<SubSeq(text, pos, end - 1)>> \o FindAll(text, end))

\* the loop of GeoText.parse over the candidates
RECURSIVE StrictScan(_, _, _)
StrictScan(candidates, matches, meta) ==
  IF candidates = <<>> THEN matches
  ELSE LET candidate == Strip(Head(candidates), Whitespace)
           match_types == MetaGet(meta, Lower(normalize(candidate)))
       IN  Bind(AppendMatch(matches, match_types, candidate),
                LAMBDA new : StrictScan(Tail(candidates), new, meta))

\* the keys parse calls meta.get with, in order
StrictLookups(candidates) ==
  [i \in DOMAIN candidates |-> Lower(normalize(Strip(candidates[i], Whitespace)))]

\* the shared index after the extractor of a call has run on text
IndexAfterParse(index, text, aggressive) ==
  [index EXCEPT !.meta =
     MetaAfterGets(@, IF aggressive
                        THEN AggressiveLookups(Split(normalize(text)), 1, 0, index.meta)
                        ELSE StrictLookups(FindAll(text, 1)))]

\* GeoText.parse(text)
parse(text, index) ==
  Bind(FindAll(text, 1),
       LAMBDA candidates :
         [matches |-> [StrictScan(candidates, NoMatches, index.meta)
                         EXCEPT ![NATIONALITIES] = <<>>],
          accepted |-> <<>>])

(***************************************************************************)
(* GeoText.__init__: the country filter and the mention tabulation         *)
(***************************************************************************)
\* country=None
None == <<"None">>

\* PlaceData == str: a namedtuple never equals a string
TupleEqualsStr(value, s) == FALSE

\* [x for x in bucket if index[x.lower()] ... == country]; by_field tells
\* whether the comparison reads the .country field of the record
RECURSIVE FilterBucket(_, _, _, _)
FilterBucket(bucket, index, country, by_field) ==
  IF bucket = <<>> THEN Ok(<<>>)
  ELSE LET key == Lower(Head(bucket))
       IN  IF key \notin DOMAIN index THEN Raise("KeyError")
           ELSE Bind(FilterBucket(Tail(bucket), index, country, by_field),
                     LAMBDA rest :
                       IF rest.exc # "" THEN rest
                       ELSE IF (IF by_field THEN index[key].country = country
                                ELSE TupleEqualsStr(index[key], country))
                         THEN Ok(<<Head(bucket)>> \o rest.val)
                       ELSE rest)

\* the index the filter of each attribute looks its strings up in
FilterIndex(index, match_type) ==
  IF match_type = NATIONALITIES THEN index.nationalities ELSE index.cities

\* the shared index after the three list comprehensions of the filter
IndexAfterFilter(index, self) ==
  [index EXCEPT
     !.cities = AfterGetItems(@, LowerAll(self.cities) \o LowerAll(self.admin_divisions)),
     !.nationalities = AfterGetItems(@, LowerAll(self.nationalities))]

\* the filter of one attribute
FilterAttr(bucket, index, country, match_type) ==
  FilterBucket(bucket, FilterIndex(index, match_type), country, match_type = CITIES)

\* mentions[country] += 1, mentions being kept in insertion order
Increment(mentions, country) ==
  IF \E i \in DOMAIN mentions : mentions[i].country = country
    THEN [i \in DOMAIN mentions |->
            IF mentions[i].country = country
              THEN [mentions[i] EXCEPT !.count = @ + 1]
              ELSE mentions[i]]
    ELSE Append(mentions, [country |-> country, count |-> 1])

\* max_population[country] = max(max_population[country], population)
UpdateMax(max_population, country, population) ==
  Put(max_population, country,
      Max(IF country \in DOMAIN max_population THEN max_population[country] ELSE 0,
          population))

\* Unseen with seen keyed by the string alone
UnseenString(seen, country, match_string) ==
  \A pair \in seen : pair[2] # match_string

\* (country, match_string) not in seen
Unseen(seen, country, match_string) == <<country, match_string>> \notin seen

\* TabulateString without the seen test: every match is counted
TabulateStringNoDedup(st, seen, place, match_string) ==
  [mentions |-> Increment(st.mentions, place.country),
   max_population |-> UpdateMax(st.max_population, place.country, place.population),
   new_matches |-> st.new_matches \cup {<<place.country, match_string>>}]

\* TabulateString with the population update moved under the seen test
TabulateStringMaxWhenCounted(st, seen, place, match_string) ==
  IF Unseen(seen, place.country, match_string)
    THEN [mentions |-> Increment(st.mentions, place.country),
          max_population |-> UpdateMax(st.max_population, place.country,
                                       place.population),
          new_matches |-> st.new_matches \cup {<<place.country, match_string>>}]
    ELSE st

\* the body of "for match_string in parsed[match_type]" for one string
TabulateString(st, seen, place, match_string) ==
  IF Unseen(seen, place.country, match_string)
    THEN [mentions |-> Increment(st.mentions, place.country),
          max_population |-> UpdateMax(st.max_population, place.country,
                                       place.population),
          new_matches |-> st.new_matches \cup {<<place.country, match_string>>}]
    ELSE [st EXCEPT !.max_population =
            UpdateMax(st.max_population, place.country, place.population)]

\* the loop "for match_string in parsed[match_type]"
RECURSIVE TabulateBucket(_, _, _, _)
TabulateBucket(bucket, index, seen, st) ==
  IF bucket = <<>> THEN Ok(st)
  ELSE LET key == Lower(Head(bucket))
       IN  IF key \notin DOMAIN index THEN Raise("KeyError")
           ELSE Bind(TabulateString(st, seen, index[key], Head(bucket)),
                     LAMBDA new : TabulateBucket(Tail(bucket), index, seen, new))

\* the loop "for match_type in MATCH_TYPES", in the order the set is iterated
RECURSIVE TabulateTypes(_, _, _, _, _)
TabulateTypes(order, parsed, index, seen, st) ==
  IF order = <<>> THEN Ok(st)
  ELSE Bind(TabulateBucket(parsed[Head(order)], IndexOf(index, Head(order)), seen,
                           [st EXCEPT !.new_matches = {}]),
            LAMBDA r :
              IF r.exc # "" THEN r
              ELSE Bind(seen \cup r.val.new_matches,
                        LAMBDA updated :
                          TabulateTypes(Tail(order), parsed, index, updated, r.val)))

Tabulate(order, parsed, index) ==
  TabulateTypes(order, parsed, index, {},
                [mentions |-> <<>>, max_population |-> EmptyDict, new_matches |-> {}])

\* the shared index after the tabulation loop has looked the strings of
\* parsed up
IndexAfterTabulate(index, parsed) ==
  [nationalities |-> AfterGetItems(index.nationalities, LowerAll(parsed[NATIONALITIES])),
   cities |-> AfterGetItems(index.cities, LowerAll(parsed[CITIES])),
   countries |-> AfterGetItems(index.countries, LowerAll(parsed[COUNTRIES])),
   admin_divisions |-> AfterGetItems(index.admin_divisions,
                                     LowerAll(parsed[ADMIN_DIVISIONS])),
   meta |-> index.meta]

\* the sort key (x[1], max_population[x[0]]) compared as a tuple
KeyLess(a, b, max_population) ==
  \/ a.count < b.count
  \/ a.count = b.count /\ max_population[a.country] < max_population[b.country]

\* sorted(..., reverse=True) is stable: an item goes after the items that
\* are not less than it
InsertDesc(out, item, max_population) ==
  LET n == Cardinality({ i \in DOMAIN out : ~KeyLess(out[i], item, max_population) })
  IN  SubSeq(out, 1, n) \o <<item>> \o SubSeq(out, n + 1, Len(out))

RECURSIVE SortedDesc(_, _, _)
SortedDesc(items, out, max_population) ==
  IF items = <<>> THEN out
  ELSE Bind(InsertDesc(out, Head(items), max_population),
            LAMBDA inserted : SortedDesc(Tail(items), inserted, max_population))

\* OrderedDict(sorted(mentions.items(), key=..., reverse=True))
CountryMentions(mentions, max_population) == SortedDesc(mentions, <<>>, max_population)

(***************************************************************************)
(* The data directory: six files of rows.  The rows keep the column        *)
(* layout of the geonames dumps that the parsers of build_index index.     *)
(***************************************************************************)
\* alternateNamesFiltered.txt: alternateNameId, geonameid, language, name
AliasRowLA == <<<<"1">>, <<"6">>, <<"e","n">>, <<"L","A">>>>

AliasRowPeru == <<<<"2">>, <<"1","1">>, <<"q","u">>, <<"P","i","r","u","w">>>>

\* a row with an id that no place row carries
AliasRowOrphan == <<<<"3">>, <<"9","9">>, <<"e","n">>, <<"N","o","w","h","e","r","e">>>>

\* a row cut short after the geonameid
AliasRowShort == <<<<"4">>, <<"6">>>>

\* alternateNamesCustom.txt: geonameid, name
CustomRowLA == <<<<"6">>, <<"L","o","s"," ","A","n","g","e","l","e","s">>>>

CustomRowShort == <<<<"6">>>>

\* countryInfo.txt: ISO code (0), name (4), population (7), geonameid (16)
CountryHeader == <<<<"#","I","S","O">>>>

CountryRowPeru == <<<<"P","E">>, <<>>, <<>>, <<>>, <<"P","e","r","u">>, <<>>, <<>>, <<"3","0">>, <<>>, <<>>, <<>>, <<>>, <<>>, <<>>, <<>>, <<>>, <<"1","1">>>>

CountryRowShort == <<<<"P","E">>, <<>>, <<>>, <<>>, <<"P","e","r","u">>, <<>>, <<>>, <<"3","0">>>>

\* nationalities.txt: nationality:country
NationalityRowPeruvian == <<<<"P","e","r","u","v","i","a","n">>, <<"P","E">>>>

\* a nationality spelled like the country name
NationalityRowPeru == <<<<"P","e","r","u">>, <<"P","E">>>>

NationalityRowShort == <<<<"P","e","r","u","v","i","a","n">>>>

\* cities15000.txt: geonameid (0), name (1), asciiname (2), feature code (7),
\* country code (8), admin1 code (10), population (14)
CityRowYork == <<<<"2">>, <<"Y","o","r","k">>, <<"Y","o","r","k">>, <<>>, <<>>, <<>>, <<>>, <<"P","P","L">>, <<"G","B">>, <<>>, <<"E","N","G">>, <<>>, <<>>, <<>>, <<"8">>>>

CityRowLima == <<<<"3">>, <<"L","i","m","a">>, <<"L","i","m","a">>, <<>>, <<>>, <<>>, <<>>, <<"P","P","L","C">>, <<"P","E">>, <<>>, <<"1","5">>, <<>>, <<>>, <<>>, <<"7">>>>

CityRowPeru == <<<<"4">>, <<"P","e","r","u">>, <<"P","e","r","u">>, <<>>, <<>>, <<>>, <<>>, <<"P","P","L">>, <<"U","S">>, <<>>, <<"I","N">>, <<>>, <<>>, <<>>, <<"1">>>>

CityRowBay == <<<<"5">>, <<"B","a","y">>, <<"B","a","y">>, <<>>, <<>>, <<>>, <<>>, <<"P","P","L">>, <<"P","H">>, <<>>, <<"4","0">>, <<>>, <<>>, <<>>, <<"5">>>>

CityRowLosAngeles == <<<<"6">>, <<"L","A">>, <<"L","A">>, <<>>, <<>>, <<>>, <<>>, <<"P","P","L">>, <<"U","S">>, <<>>, <<"C","A">>, <<>>, <<>>, <<>>, <<"4">>>>

\* a second York, in another country
CityRowYorkUS == <<<<"7">>, <<"Y","o","r","k">>, <<"Y","o","r","k">>, <<>>, <<>>, <<>>, <<>>, <<"P","P","L">>, <<"U","S">>, <<>>, <<"P","A">>, <<>>, <<>>, <<>>, <<"1">>>>

CityRowShort == <<<<"3">>, <<"L","i","m","a">>, <<"L","i","m","a">>, <<>>, <<>>, <<>>, <<>>, <<"P","P","L","C">>, <<"P","E">>, <<>>, <<"1","5">>>>

\* adminDivisions15000.txt, same layout
AdminRowNewYork == <<<<"2","1">>, <<"N","e","w"," ","Y","o","r","k">>, <<"N","e","w"," ","Y","o","r","k">>, <<>>, <<>>, <<>>, <<>>, <<"A","D","M","1">>, <<"U","S">>, <<>>, <<"N","Y">>, <<>>, <<>>, <<>>, <<"1","9">>>>

AdminRowLima == <<<<"2","2">>, <<"L","i","m","a">>, <<"L","i","m","a">>, <<>>, <<>>, <<>>, <<>>, <<"A","D","M","1">>, <<"P","E">>, <<>>, <<"1","5">>, <<>>, <<>>, <<>>, <<"1","0">>>>

AdminRowBadPopulation == <<<<"2","3">>, <<"L","i","m","a">>, <<"L","i","m","a">>, <<>>, <<>>, <<>>, <<>>, <<"A","D","M","1">>, <<"P","E">>, <<>>, <<"1","5">>, <<>>, <<>>, <<>>, <<"n","/","a">>>>

\* the data directory the module loads at import
DataDir ==
  [aliases |-> <<AliasRowLA, AliasRowPeru, AliasRowOrphan>>,
   custom_aliases |-> <<CustomRowLA>>,
   countries |-> <<CountryHeader, CountryRowPeru>>,
   nationalities |-> <<NationalityRowPeruvian, NationalityRowPeru>>,
   cities |-> <<CityRowYork, CityRowLima, CityRowPeru, CityRowBay, CityRowLosAngeles>>,
   admin_divisions |-> <<AdminRowNewYork, AdminRowLima>>]

(***************************************************************************)
(* build_index, step by step                                               *)
(***************************************************************************)
\* aliases after both alias files are read and merged
LoadAliases(dir) ==
  Bind(read_table(dir.aliases, ALIASES, EmptyDict),
       LAMBDA aliases :
         IF aliases.exc # "" THEN aliases
         ELSE Bind(read_table(dir.custom_aliases, CUSTOM_ALIASES, EmptyDict),
                   LAMBDA custom_aliases :
                     IF custom_aliases.exc # "" THEN custom_aliases
                     ELSE Ok(MergeAliases(aliases.val, custom_aliases.val))))

\* nationalities after the keys of countries are popped
LoadNationalities(dir, countries) ==
  Bind(read_table(dir.nationalities, NATIONALITIES, EmptyDict),
       LAMBDA nationalities :
         IF nationalities.exc # "" THEN nationalities
         ELSE Ok(PopAll(nationalities.val, DOMAIN countries)))

\* the part of build_index after the alias map: the four tables, then meta
LoadTables(dir, aliases) ==
  Bind(read_table(dir.countries, COUNTRIES, aliases),
    LAMBDA countries :
      IF countries.exc # "" THEN countries
      ELSE Bind(LoadNationalities(dir, countries.val),
        LAMBDA nationalities :
          IF nationalities.exc # "" THEN nationalities
          ELSE Bind(read_table(dir.cities, CITIES, aliases),
            LAMBDA cities :
              IF cities.exc # "" THEN cities
              ELSE Bind(read_table(dir.admin_divisions, ADMIN_DIVISIONS, aliases),
                LAMBDA admin_divisions :
                  IF admin_divisions.exc # "" THEN admin_divisions
                  ELSE Ok(Index(nationalities.val, cities.val, countries.val,
                                admin_divisions.val,
                                BuildMeta(cities.val, admin_divisions.val,
                                          nationalities.val, countries.val)))))))

\* build_index()
build_index(dir) ==
  Bind(LoadAliases(dir),
       LAMBDA aliases :
         IF aliases.exc # "" THEN aliases ELSE LoadTables(dir, aliases.val))

(***************************************************************************)
(* Inputs of GeoText(text, country, aggressive)                            *)
(***************************************************************************)
\* the longest text, in pieces
MaxTextPieces == 2

TextPieces ==
  { <<"N","e","w">>,
    <<"Y","o","r","k">>,
    <<"N","e","w","-","Y","o","r","k">>,
    <<"U","K">>,
    <<"L","i","m","a">>,
    <<"P","e","r","u">>,
    <<"B","a","y">>,
    <<"l","a">>,
    <<"L","A">>,
    <<"P","e","r","u","v","i","a","n">> }

\* the texts: up to MaxTextPieces pieces separated by single spaces
Texts == { Join(ps) : ps \in UNION { [1..n -> TextPieces] : n \in 0..MaxTextPieces } }

\* no filter, the code of a country of the gazetteer, a code no record carries
CountryFilters == { None, <<"P","E">>, <<"Z","Z">> }

\* the orders in which "for match_type in MATCH_TYPES" can visit the set
Orders == { o \in [1..4 -> MATCH_TYPES] : \A i, j \in 1..4 : o[i] = o[j] => i = j }

(***************************************************************************)
(* State                                                                   *)
(***************************************************************************)
VARIABLES
  files,      \* the data directory build_index reads
  bpc,        \* the position of build_index
  built,      \* the tables build_index has read so far
  bexc,       \* the exception build_index raised, "" if none
  index,      \* GeoText.index, the class attribute shared by all calls
  pc,         \* the position of the running GeoText.__init__ call
  text,       \* its text argument
  country,    \* its country argument
  aggressive, \* its aggressive argument
  parsed,     \* its local parsed
  accepted,   \* the windows parse_aggressive accepted, in order
  self,       \* the attributes of the object under construction
  exc         \* the exception the call raised, "" if none

vars == <<files, bpc, built, bexc, index, pc, text, country, aggressive, parsed,
          accepted, self, exc>>

buildVars == <<files, bpc, built, bexc, index>>

loadVars == <<files, bpc, built, bexc>>

callVars == <<pc, text, country, aggressive, parsed, accepted, self, exc>>

NoTables ==
  [aliases |-> EmptyDict, countries |-> EmptyDict, nationalities |-> EmptyDict,
   cities |-> EmptyDict, admin_divisions |-> EmptyDict]

NoIndex == Index(EmptyDict, EmptyDict, EmptyDict, EmptyDict, EmptyDict)

NoSelf ==
  [countries |-> <<>>, admin_divisions |-> <<>>, cities |-> <<>>,
   nationalities |-> <<>>, country_mentions |-> <<>>]

NoCall ==
  /\ pc = "idle"
  /\ text = <<>>
  /\ country = None
  /\ aggressive = FALSE
  /\ parsed = NoMatches
  /\ accepted = <<>>
  /\ self = NoSelf
  /\ exc = ""

\* the module is imported: the class body has run build_index on DataDir
Init ==
  /\ files = DataDir
  /\ bpc = "done"
  /\ \E r \in {build_index(DataDir)} :
       /\ index = r.val
       /\ built = [aliases |-> LoadAliases(DataDir).val,
                   countries |-> r.val.countries,
                   nationalities |-> r.val.nationalities,
                   cities |-> r.val.cities,
                   admin_divisions |-> r.val.admin_divisions]
  /\ bexc = ""
  /\ NoCall

(***************************************************************************)
(* GeoText.__init__ in three steps: parse, filter, tabulate                *)
(***************************************************************************)
\* parsed = self.parse_aggressive(text) if aggressive else self.parse(text),
\* and the four attribute assignments
Parse(t, c, a) ==
  /\ bpc = "done"
  /\ pc = "idle"
  /\ \E r \in {IF a THEN parse_aggressive(t, index) ELSE parse(t, index)} :
         /\ parsed' = r.matches
         /\ accepted' = r.accepted
         /\ self' = [countries |-> r.matches[COUNTRIES],
                     admin_divisions |-> r.matches[ADMIN_DIVISIONS],
                     cities |-> r.matches[CITIES],
                     nationalities |-> r.matches[NATIONALITIES],
                     country_mentions |-> <<>>]
  /\ text' = t
  /\ country' = c
  /\ aggressive' = a
  /\ exc' = ""
  /\ pc' = "parsed"
  /\ index' = IndexAfterParse(index, t, a)
  /\ UNCHANGED loadVars

\* if country is not None: the three list comprehensions, in order
Filter ==
  /\ pc = "parsed"
  /\ IF country = None
       THEN /\ pc' = "filtered"
            /\ UNCHANGED <<self, exc>>
       ELSE \E c \in {FilterAttr(self.cities, index, country, CITIES)},
               d \in {FilterAttr(self.admin_divisions, index, country, ADMIN_DIVISIONS)},
               n \in {FilterAttr(self.nationalities, index, country, NATIONALITIES)} :
                IF c.exc # ""
                  THEN /\ pc' = "failed" /\ exc' = c.exc /\ UNCHANGED self
                ELSE IF d.exc # ""
                  THEN /\ pc' = "failed" /\ exc' = d.exc
                       /\ self' = [self EXCEPT !.cities = c.val]
                ELSE IF n.exc # ""
                  THEN /\ pc' = "failed" /\ exc' = n.exc
                       /\ self' = [self EXCEPT !.cities = c.val,
                                               !.admin_divisions = d.val]
                ELSE /\ pc' = "filtered" /\ exc' = ""
                     /\ self' = [self EXCEPT !.cities = c.val,
                                             !.admin_divisions = d.val,
                                             !.nationalities = n.val]
  /\ index' = IF country = None THEN index ELSE IndexAfterFilter(index, self)
  /\ UNCHANGED <<text, country, aggressive, parsed, accepted>>
  /\ UNCHANGED loadVars

\* the tabulation loop over parsed and the sort into country_mentions
TabulateMentions(order) ==
  /\ pc = "filtered"
  /\ \E r \in {Tabulate(order, parsed, index)} :
         IF r.exc # ""
           THEN /\ pc' = "failed" /\ exc' = r.exc /\ UNCHANGED self
           ELSE /\ pc' = "done" /\ exc' = ""
                /\ self' = [self EXCEPT !.country_mentions =
                              CountryMentions(r.val.mentions, r.val.max_population)]
  /\ index' = IndexAfterTabulate(index, parsed)
  /\ UNCHANGED <<text, country, aggressive, parsed, accepted>>
  /\ UNCHANGED loadVars

\* the call has returned or raised: the caller may make the next one
Return ==
  /\ pc \in {"done", "failed"}
  /\ pc' = "idle"
  /\ text' = <<>>
  /\ country' = None
  /\ aggressive' = FALSE
  /\ parsed' = NoMatches
  /\ accepted' = <<>>
  /\ self' = NoSelf
  /\ exc' = ""
  /\ UNCHANGED buildVars

Next ==
  \/ \E t \in Texts, c \in CountryFilters, a \in BOOLEAN : Parse(t, c, a)
  \/ Filter
  \/ \E order \in Orders : TabulateMentions(order)
  \/ Return

Spec == Init /\ [][Next]_vars

(***************************************************************************)
(* build_index run step by step on a data directory whose files are read   *)
(* as the steps reach them, followed by the parse step of calls            *)
(***************************************************************************)
\* the longest cities file, in rows
MaxRows == 2

AliasFiles ==
  { <<AliasRowLA, AliasRowPeru, AliasRowOrphan>>, <<>>, <<AliasRowLA, AliasRowShort>> }

CustomAliasFiles == { <<CustomRowLA>>, <<CustomRowShort>> }

CountryFiles ==
  { <<CountryHeader, CountryRowPeru>>, <<CountryHeader, CountryRowShort>>, <<>> }

NationalityFiles ==
  { <<NationalityRowPeruvian, NationalityRowPeru>>, <<NationalityRowShort>> }

CityRows == { CityRowYork, CityRowYorkUS, CityRowLima, CityRowPeru, CityRowBay, CityRowShort }

CityFiles == UNION { [1..n -> CityRows] : n \in 0..MaxRows }

AdminFiles ==
  { <<AdminRowNewYork, AdminRowLima>>, <<AdminRowLima>>, <<AdminRowBadPopulation>> }

NoFiles ==
  [aliases |-> <<>>, custom_aliases |-> <<>>, countries |-> <<>>,
   nationalities |-> <<>>, cities |-> <<>>, admin_divisions |-> <<>>]

\* the texts of the calls made after the import: one piece each
ProbeTexts == { Join(ps) : ps \in [1..1 -> TextPieces] }

BuildInit ==
  /\ files = NoFiles
  /\ bpc = "aliases"
  /\ built = NoTables
  /\ bexc = ""
  /\ index = NoIndex
  /\ NoCall

\* a step of build_index ends with the result r: the next step, or the raise
BuildStep(r, table, next) ==
  IF r.exc # ""
    THEN /\ bpc' = "failed" /\ bexc' = r.exc /\ UNCHANGED built
    ELSE /\ bpc' = next /\ bexc' = ""
         /\ built' = [built EXCEPT ![table] = r.val]

\* the two alias files are read and merged
ReadAliases(f, g) ==
  /\ bpc = "aliases"
  /\ files' = [files EXCEPT !.aliases = f, !.custom_aliases = g]
  /\ \E r \in {LoadAliases(files')} : BuildStep(r, "aliases", COUNTRIES)
  /\ UNCHANGED index
  /\ UNCHANGED callVars

ReadCountries(f) ==
  /\ bpc = COUNTRIES
  /\ files' = [files EXCEPT !.countries = f]
  /\ \E r \in {read_table(f, COUNTRIES, built.aliases)} :
       BuildStep(r, COUNTRIES, NATIONALITIES)
  /\ UNCHANGED index
  /\ UNCHANGED callVars

ReadNationalities(f) ==
  /\ bpc = NATIONALITIES
  /\ files' = [files EXCEPT !.nationalities = f]
  /\ \E r \in {LoadNationalities(files', built.countries)} :
       BuildStep(r, NATIONALITIES, CITIES)
  /\ UNCHANGED index
  /\ UNCHANGED callVars

ReadCities(f) ==
  /\ bpc = CITIES
  /\ files' = [files EXCEPT !.cities = f]
  /\ \E r \in {read_table(f, CITIES, built.aliases)} :
       BuildStep(r, CITIES, ADMIN_DIVISIONS)
  /\ UNCHANGED index
  /\ UNCHANGED callVars

ReadAdminDivisions(f) ==
  /\ bpc = ADMIN_DIVISIONS
  /\ files' = [files EXCEPT !.admin_divisions = f]
  /\ \E r \in {read_table(f, ADMIN_DIVISIONS, built.aliases)} :
       BuildStep(r, ADMIN_DIVISIONS, "meta")
  /\ UNCHANGED index
  /\ UNCHANGED callVars

\* the meta loop and the Index the class body binds to GeoText.index
MakeIndex ==
  /\ bpc = "meta"
  /\ index' = Index(built.nationalities, built.cities, built.countries,
                    built.admin_divisions,
                    BuildMeta(built.cities, built.admin_divisions,
                              built.nationalities, built.countries))
  /\ bpc' = "done"
  /\ UNCHANGED <<files, built, bexc>>
  /\ UNCHANGED callVars

BuildNext ==
  \/ \E f \in AliasFiles, g \in CustomAliasFiles : ReadAliases(f, g)
  \/ \E f \in CountryFiles : ReadCountries(f)
  \/ \E f \in NationalityFiles : ReadNationalities(f)
  \/ \E f \in CityFiles : ReadCities(f)
  \/ \E f \in AdminFiles : ReadAdminDivisions(f)
  \/ MakeIndex
  \/ \E t \in ProbeTexts, a \in BOOLEAN : Parse(t, None, a)

SpecBuild == BuildInit /\ [][BuildNext]_vars

(***************************************************************************)
(* Properties                                                              *)
(***************************************************************************)
\* the record the tabulator reads for string str of the bucket of match_type
RecordOf(match_type, str) == IndexOf(index, match_type)[Lower(str)]

HasRecord(match_type, str) == Lower(str) \in DOMAIN IndexOf(index, match_type)

\* the (match type, position) pairs of the matched strings of the buckets b
Slots(b) == UNION { { <<t, i>> : i \in DOMAIN b[t] } : t \in MATCH_TYPES }

\* the (country, string) pairs the buckets b attribute
Attributions(b) ==
  { <<RecordOf(sl[1], b[sl[1]][sl[2]]).country, b[sl[1]][sl[2]]>> : sl \in Slots(b) }

Occurrences(bucket, str) == Cardinality({ i \in DOMAIN bucket : bucket[i] = str })

\* the number of times the extractor matched str in the text
TimesMatched(str) ==
  CHOOSE k \in { Occurrences(parsed[t], str) : t \in MATCH_TYPES } :
    \A t \in MATCH_TYPES : Occurrences(parsed[t], str) <= k

RECURSIVE SumTimesMatched(_)
SumTimesMatched(strs) ==
  IF strs = {} THEN 0
  ELSE LET str == CHOOSE x \in strs : TRUE
       IN  TimesMatched(str) + SumTimesMatched(strs \ {str})

MentionedCountries == { self.country_mentions[i].country : i \in DOMAIN self.country_mentions }

\* C1: when a call has tabulated, every country some matched string is
\* attributed to has one entry in country_mentions, and its count is the sum,
\* over the distinct strings attributed to it, of the number of times the
\* string was matched in the text: k for a string matched k times, whether
\* it sits in one bucket or in two.
C1_EachOccurrenceCountsOnce ==
  pc = "done" =>
    /\ MentionedCountries = { a[1] : a \in Attributions(parsed) }
    /\ \A i, j \in DOMAIN self.country_mentions :
         self.country_mentions[i].country = self.country_mentions[j].country => i = j
    /\ \A i \in DOMAIN self.country_mentions :
         self.country_mentions[i].count =
           SumTimesMatched({ a[2] : a \in { b \in Attributions(parsed) :
                                              b[1] = self.country_mentions[i].country } })

sLima == <<"L","i","m","a">>

sPE == <<"P","E">>

\* "Lima Lima": Lima is matched twice, as a city and as an admin division of
\* PE both times, and PE is counted twice
C1_Witness ==
  /\ pc = "done"
  /\ parsed[CITIES] = <<sLima, sLima>>
  /\ parsed[ADMIN_DIVISIONS] = <<sLima, sLima>>
  /\ self.country_mentions = <<[country |-> sPE, count |-> 2]>>

\* the largest population among the records of the matched strings of all
\* four buckets that are attributed to country c
MaxPopulationOf(c) ==
  LET pops == { RecordOf(sl[1], parsed[sl[1]][sl[2]]).population :
                  sl \in { x \in Slots(parsed) :
                             RecordOf(x[1], parsed[x[1]][x[2]]).country = c } }
  IN  CHOOSE m \in pops : \A q \in pops : q <= m

\* C2: country_mentions is in descending order of count, and entries of equal
\* count are in descending order of the largest population among all matched
\* strings attributed to the country, counted or not.
C2_OrderedByCountThenPopulation ==
  pc = "done" =>
    \A i, j \in DOMAIN self.country_mentions :
      i < j =>
        \/ self.country_mentions[i].count > self.country_mentions[j].count
        \/ /\ self.country_mentions[i].count = self.country_mentions[j].count
           /\ MaxPopulationOf(self.country_mentions[i].country)
                >= MaxPopulationOf(self.country_mentions[j].country)

sGB == <<"G","B">>

\* "Lima York": PE and GB are mentioned once each; York has 8 inhabitants,
\* Lima 7 as a city and 10 as an admin division
C2_Witness ==
  /\ pc = "done"
  /\ self.country_mentions = <<[country |-> sPE, count |-> 1],
                               [country |-> sGB, count |-> 1]>>
  /\ RecordOf(CITIES, sLima).population < MaxPopulationOf(sGB)
  /\ MaxPopulationOf(sGB) < MaxPopulationOf(sPE)

\* the (country, count) pairs of a list of mentions
Counts(mentions) ==
  { <<mentions[i].country, mentions[i].count>> : i \in DOMAIN mentions }

\* C3: whatever order the four match types are visited in, the tabulation of
\* the buckets of a call ends the same way, with the same count for every
\* country (the counts of country_mentions) and the same maximum population.
C3_OrderOfTypesIrrelevant ==
  pc = "done" =>
    \A o \in Orders :
      \A r \in {Tabulate(o, parsed, index)} :
        /\ r.exc = ""
        /\ Counts(r.val.mentions) = Counts(self.country_mentions)
        /\ DOMAIN r.val.max_population = { a[1] : a \in Attributions(parsed) }
        /\ \A c \in DOMAIN r.val.max_population :
             r.val.max_population[c] = MaxPopulationOf(c)

sPeru == <<"P","e","r","u">>

sUS == <<"U","S">>

\* "Peru Lima": Peru is a city of US and a country, Lima a city and an admin
\* division of PE
C3_Witness ==
  /\ pc = "done"
  /\ parsed[CITIES] = <<sPeru, sLima>>
  /\ parsed[COUNTRIES] = <<sPeru>>
  /\ parsed[ADMIN_DIVISIONS] = <<sLima>>
  /\ Counts(self.country_mentions) = { <<sPE, 2>>, <<sUS, 1>> }

\* the last token of an accepted window
EndOf(a) == a.start + a.length - 1

\* C4: in aggressive mode every accepted window ends after all the windows
\* accepted before it, so none lies within another.
C4_NoMatchInsideAnother ==
  (aggressive /\ pc # "idle") =>
    /\ \A i, j \in DOMAIN accepted : i < j => EndOf(accepted[i]) < EndOf(accepted[j])
    /\ \A i, j \in DOMAIN accepted :
         (i # j /\ accepted[j].start <= accepted[i].start
                /\ EndOf(accepted[i]) <= EndOf(accepted[j])) => FALSE

\* "New-York UK": New York, then York UK, which overlaps it; York alone,
\* a city, is not returned
C4_Witness ==
  /\ aggressive /\ pc = "parsed"
  /\ accepted = << [start |-> 1, length |-> 2, prev |-> 0],
                   [start |-> 2, length |-> 2, prev |-> 1] >>
  /\ parsed[CITIES] = << <<"Y","o","r","k"," ","U","K">> >>
  /\ <<"y","o","r","k">> \in DOMAIN index.meta

\* the tokens of the text of the call
TokensOfText == Split(normalize(text))

\* the windows at token i longer than prev that pass the short-token filter
\* and are keys of meta
Hits(i, prev) ==
  { L \in (prev + 1)..Min(MaxNameWords, Len(TokensOfText) - i + 1) :
      /\ ~ShortLower(Candidate(TokensOfText, i, L))
      /\ Lower(Candidate(TokensOfText, i, L)) \in DOMAIN index.meta }

AcceptedAt(i) == { k \in DOMAIN accepted : accepted[k].start = i }

\* prev_match_len after the iteration of token i, read off accepted
RECURSIVE PrevAfter(_)
PrevAfter(i) ==
  IF i = 0 THEN 0
  ELSE IF AcceptedAt(i) # {} THEN accepted[CHOOSE k \in AcceptedAt(i) : TRUE].length
  ELSE Max(PrevAfter(i - 1) - 1, 0)

\* the strings the accepted windows add to the bucket of match type t
RECURSIVE BucketFrom(_, _)
BucketFrom(acc, t) ==
  IF acc = <<>> THEN <<>>
  ELSE LET c == Candidate(TokensOfText, Head(acc).start, Head(acc).length)
       IN  (IF t \in MetaGet(index.meta, Lower(c)) THEN <<c>> ELSE <<>>)
             \o BucketFrom(Tail(acc), t)

\* C5: in aggressive mode each token index has at most one accepted window;
\* it is the longest window at that index that is longer than prev_match_len,
\* at most 4 tokens, passes the short-token filter and is a key of meta, and
\* an index with such a window has one accepted; prev_match_len becomes its
\* length, and the buckets hold the candidates of the accepted windows, each
\* in every bucket of its meta entry.
C5_LongestWindowWins ==
  (aggressive /\ pc # "idle") =>
    /\ \A i \in 1..Len(TokensOfText) :
         LET prev == Max(PrevAfter(i - 1) - 1, 0)
         IN  /\ Cardinality(AcceptedAt(i)) <= 1
             /\ AcceptedAt(i) = {} <=> Hits(i, prev) = {}
             /\ \A k \in AcceptedAt(i) :
                  /\ accepted[k].prev = prev
                  /\ accepted[k].length \in Hits(i, prev)
                  /\ \A L \in Hits(i, prev) : L <= accepted[k].length
    /\ \A k \in DOMAIN accepted : accepted[k].start \in 1..Len(TokensOfText)
    /\ \A k \in 1..(Len(accepted) - 1) : accepted[k].start < accepted[k + 1].start
    /\ \A t \in MATCH_TYPES : parsed[t] = BucketFrom(accepted, t)

\* "York UK": York alone is a key of meta, and the window York UK is accepted
C5_Witness ==
  /\ aggressive /\ pc = "parsed"
  /\ accepted = << [start |-> 1, length |-> 2, prev |-> 0] >>
  /\ Hits(1, 0) = {1, 2}
  /\ parsed[CITIES] = << <<"Y","o","r","k"," ","U","K">> >>

\* the strings of bucket whose record in the index of match type t carries
\* the country of the filter
KeptBy(bucket, t) ==
  SelectSeq(bucket, LAMBDA str : HasRecord(t, str) /\ RecordOf(t, str).country = country)

\* C6: with a country filter, cities, admin_divisions and nationalities are
\* the strings of their buckets whose record in the index of their own
\* category carries the country of the filter, in order, and countries is
\* the whole bucket.
C6_FilterKeepsMatchesOfCountry ==
  (pc = "filtered" /\ country # None) =>
    /\ self.cities = KeptBy(parsed[CITIES], CITIES)
    /\ self.admin_divisions = KeptBy(parsed[ADMIN_DIVISIONS], ADMIN_DIVISIONS)
    /\ self.nationalities = KeptBy(parsed[NATIONALITIES], NATIONALITIES)
    /\ self.countries = parsed[COUNTRIES]

\* the buckets the attributes of the object hold
AttributeBuckets ==
  [t \in MATCH_TYPES |->
     CASE t = COUNTRIES -> self.countries
       [] t = ADMIN_DIVISIONS -> self.admin_divisions
       [] t = CITIES -> self.cities
       [] t = NATIONALITIES -> self.nationalities]

\* C7: with a country filter, country_mentions holds the counts the
\* tabulation of the filtered attribute lists gives: a dropped match adds no
\* count.
C7_MentionsFromFilteredLists ==
  (pc = "done" /\ country # None) =>
    \A o \in Orders :
      \A r \in {Tabulate(o, AttributeBuckets, index)} :
        r.exc = "" /\ Counts(r.val.mentions) = Counts(self.country_mentions)

\* a code some record of the gazetteer carries
RecognizedCountry(c) ==
  \E t \in MATCH_TYPES :
    \E name \in DOMAIN IndexOf(index, t) : IndexOf(index, t)[name].country = c

\* C8: no call raises, and a call with a filter code that no record carries
\* ends with empty cities, admin_divisions and nationalities.
C8_ConstructionNeverFails ==
  /\ pc # "failed"
  /\ exc = ""
  /\ (pc \in {"filtered", "done"} /\ country # None /\ ~RecognizedCountry(country)) =>
       /\ self.cities = <<>>
       /\ self.admin_divisions = <<>>
       /\ self.nationalities = <<>>

\* C9: once build_index has returned, meta has the keys of the four indexes
\* that are not in BLACKLIST, each with the set of the match types whose index
\* has the key; and no string an extractor returns is, normalized and
\* lowercased, a word of BLACKLIST.
C9_MetaIsUnionMinusBlacklist ==
  /\ bpc = "done" =>
       /\ DOMAIN index.meta
            = (UNION { DOMAIN IndexOf(index, t) : t \in MATCH_TYPES }) \ BLACKLIST
       /\ \A name \in DOMAIN index.meta :
            index.meta[name] = { t \in MATCH_TYPES : name \in DOMAIN IndexOf(index, t) }
  /\ pc = "parsed" =>
       \A sl \in Slots(parsed) :
         Lower(normalize(parsed[sl[1]][sl[2]])) \notin BLACKLIST

sBay == <<"B","a","y">>

\* the cities index has the key bay, and the aggressive parse of the text
\* Bay returns nothing
C9_Witness ==
  /\ bpc = "done"
  /\ Lower(sBay) \in DOMAIN index.cities
  /\ Lower(sBay) \in BLACKLIST
  /\ pc = "parsed" /\ aggressive /\ text = sBay
  /\ parsed = NoMatches

\* the file of the data directory each table is read from
FileOf(table) ==
  CASE table = ALIASES -> files.aliases
    [] table = CUSTOM_ALIASES -> files.custom_aliases
    [] table = COUNTRIES -> files.countries
    [] table = NATIONALITIES -> files.nationalities
    [] table = CITIES -> files.cities
    [] table = ADMIN_DIVISIONS -> files.admin_divisions

Tables == {ALIASES, CUSTOM_ALIASES, COUNTRIES, NATIONALITIES, CITIES, ADMIN_DIVISIONS}

\* the rows of the file of table that read_table parses
DataRows(table) ==
  { FileOf(table)[i] : i \in { k \in DOMAIN FileOf(table) :
      /\ k > TableSkip(table)
      /\ ~BlankLine(FileOf(table)[k], TableSep(table))
      /\ ~CommentLine(FileOf(table)[k]) } }

\* the number of columns the parsers of table index: the largest index + 1
RequiredColumns(table) ==
  CASE table = ALIASES -> 4
    [] table = CUSTOM_ALIASES -> 2
    [] table = COUNTRIES -> 17
    [] table = NATIONALITIES -> 2
    [] table \in {CITIES, ADMIN_DIVISIONS} -> 15

ShortRowRead == \E table \in Tables : \E row \in DataRows(table) : Len(row) < RequiredColumns(table)

\* the geonameid a row of table hands to with_aliases
AliasKeyOf(table, row) == IF table = COUNTRIES THEN Col(row, 16) ELSE Col(row, 0)

\* a row whose geonameid is not a key of the alias map
DanglingAliasRead ==
  \E table \in {COUNTRIES, CITIES, ADMIN_DIVISIONS} :
    \E row \in DataRows(table) :
      /\ Len(row) >= RequiredColumns(table)
      /\ AliasKeyOf(table, row) \notin DOMAIN built.aliases

\* C10 as stated: build_index returns only if no row it read was short and
\* no row referred to an id missing from the alias map.
C10_ShortRowOrMissingAliasIsFatal ==
  bpc = "done" => (~ShortRowRead /\ ~DanglingAliasRead)

\* the name column of a row of the countries or a places table
NameOf(table, row) == IF table = COUNTRIES THEN Col(row, 4) ELSE Col(row, 1)

\* C10, amended: as soon as build_index has read a file with a row that has
\* fewer columns than the parsers index, it has raised and no index exists;
\* a row whose id is missing from the alias map is no error: when
\* build_index returns, the name of every such row is a key of its index.
C10_ShortRowIsFatal ==
  /\ ShortRowRead => (bpc = "failed" /\ bexc \in {"IndexError", "ValueError"})
  /\ bpc = "failed" => index = NoIndex
  /\ bpc = "done" =>
       \A table \in {COUNTRIES, CITIES, ADMIN_DIVISIONS} :
         \A row \in DataRows(table) :
           AliasKeyOf(table, row) \notin DOMAIN built.aliases =>
             normalize(Lower(NameOf(table, row))) \in DOMAIN IndexOf(index, table)

\* the cities file has a full row whose id has no aliases and then a short
\* row: read_table raised IndexError
C10_Witness ==
  /\ files.cities = <<CityRowYork, CityRowShort>>
  /\ Col(CityRowYork, 0) \notin DOMAIN built.aliases
  /\ bpc = "failed"
  /\ bexc = "IndexError"
  /\ index = NoIndex

PlaceTables == {CITIES, ADMIN_DIVISIONS}

\* the positions of the rows of the file of table that read_table parses
DataPositions(table) ==
  { k \in DOMAIN FileOf(table) :
      /\ k > TableSkip(table)
      /\ ~BlankLine(FileOf(table)[k], TableSep(table))
      /\ ~CommentLine(FileOf(table)[k]) }

\* the key under which read_table stores name
StoredKey(name) == normalize(Lower(name))

\* the base names of a place row: the two name columns and the aliases of
\* its geonameid
BaseNames(row) == with_aliases({Col(row, 1), Col(row, 2)}, Col(row, 0), built.aliases)

\* the suffix variants get_place_keys adds for name of row
VariantsOf(row, name) == PlaceVariants(name, Col(row, 7), Col(row, 8), Col(row, 10))

\* the keys read_table stores a place row under
RowKeys(table, row) == { StoredKey(key) : key \in ParseKeys(table, row, built.aliases).val }

\* C11 as stated: in the built cities and admin_divisions indexes every
\* suffix variant key of every loaded row maps to the record its base-name
\* key maps to.
C11_VariantSharesBaseRecord ==
  bpc = "done" =>
    \A table \in PlaceTables :
      \A row \in DataRows(table) :
        \A name \in BaseNames(row) :
          \A variant \in VariantsOf(row, name) :
            IndexOf(index, table)[StoredKey(variant)]
              = IndexOf(index, table)[StoredKey(name)]

\* C11, amended: in the built cities and admin_divisions indexes every key
\* of a row, base name or suffix variant, maps to the record of the last
\* loaded row that produces that key; the keys of one row that no later row
\* produces therefore share one record.
C11_KeyHoldsLastRowProducingIt ==
  bpc = "done" =>
    \A table \in PlaceTables :
      \A k \in DataPositions(table) :
        \A key \in RowKeys(table, FileOf(table)[k]) :
          (\A j \in DataPositions(table) :
             j > k => key \notin RowKeys(table, FileOf(table)[j]))
            => /\ key \in DOMAIN IndexOf(index, table)
               /\ IndexOf(index, table)[key] = ParseValue(table, FileOf(table)[k]).val

sYork == <<"Y","o","r","k">>

sYorkGB == <<"Y","o","r","k"," ","G","B">>

\* the cities file holds York of GB and then York of US: the variant key
\* york gb keeps the record of GB and the base key york holds the one of US
C11_Witness ==
  /\ bpc = "done"
  /\ files.cities = <<CityRowYork, CityRowYorkUS>>
  /\ index.cities[Lower(sYorkGB)] = PlaceData(sGB, 8)
  /\ index.cities[Lower(sYork)] = PlaceData(sUS, 1)

sLimaUK == <<"L","i","m","a"," ","U","K">>

====
